---- MODULE Spec2Model ----
(***************************************************************************)
(* AssetEventMetadataEntriesTable (dagster-ui, ui-core/src/assets).        *)
(*                                                                         *)
(* The component merges the metadata rows of the observations, of the      *)
(* event and of the asset definition (uniqBy label, first one found),      *)
(* filters them by label and by the exclusion rules, and shows a prefix    *)
(* of displayedCount rows with "Show N more" / "Show less" buttons.        *)
(*                                                                         *)
(* Strings are sequences of UTF-16 code units (numbers), so that           *)
(* toLowerCase and includes are computed and not assumed.                  *)
(* An optional value (null / undefined / absent prop) is NULL == <<>>,     *)
(* a present one is the one-element sequence <<value>>.                    *)
(***************************************************************************)
EXTENDS Integers, Sequences, FiniteSets, TLC

VARIABLES
    event,                   \* prop: TableEvent | null
    observations,            \* prop: TableEvent[] | null | undefined
    definitionMetadata,      \* prop: MetadataEntryFragment[] | undefined
    definitionLoadTimestamp, \* prop: number
    showFilter,              \* prop: boolean
    hideTableSchema,         \* prop: boolean
    displayedByDefault,      \* prop after defaulting (= 100 when absent)
    emptyState,              \* prop: React node | undefined
    filter,                  \* useState('')
    displayedCount,          \* useState(displayedByDefault)
    view,                    \* useState('table')
    plotView                 \* useState(assetHasDefinedPartitions ? 'partition' : 'time')

props == <<event, observations, definitionMetadata, definitionLoadTimestamp,
           showFilter, hideTableSchema, displayedByDefault, emptyState>>
vars == <<event, observations, definitionMetadata, definitionLoadTimestamp,
          showFilter, hideTableSchema, displayedByDefault, emptyState,
          filter, displayedCount, view, plotView>>

----------------------------------------------------------------------------
(* Bounds of the model *)

\* total number of metadata entries over all sources, table specification
MaxRows == 2
\* total number of metadata entries over all sources, merge specification
MaxMergeRows == 3
\* number of observation events passed in
MaxObservations == 2
\* explicit displayedByDefault values are 0..MaxDefault
MaxDefault == 1
\* the show more / show less scenario has DefaultDisplayed + ScenarioExtra rows
ScenarioExtra == 50

(* Program constants *)

\* displayedByDefault = 100
DefaultDisplayed == 100
\* Number.MAX_SAFE_INTEGER is 2^53 - 1; TLC's integers are 32 bit wide, so the
\* sentinel is the largest of them. It is only ever compared with row counts
\* and with displayedByDefault, which stay far below either value.
MAX_SAFE_INTEGER == 2147483647

----------------------------------------------------------------------------
(* Optional values *)

NULL == <<>>
Some(x) == <<x>>
Get(o) == o[1]

----------------------------------------------------------------------------
(* Strings *)

Min(a, b) == IF a < b THEN a ELSE b

\* String.prototype.toLowerCase on the code units used here: A-Z map to a-z
toLowerCase(s) == [i \in 1..Len(s) |-> IF s[i] \in 65..90 THEN s[i] + 32 ELSE s[i]]

\* String.prototype.includes: some position where t occurs in s
includes(s, t) ==
    \E i \in 0..(Len(s) - Len(t)) : \A j \in 1..Len(t) : s[i + j] = t[j]

\* a slice that stops one element early
sliceShort(array, start, end) ==
    SubSeq(array, start + 1, Min(end, Len(array)) - 1)

\* Array.prototype.slice(start, end) for 0 <= start, 0 <= end
slice(array, start, end) ==
    SubSeq(array, start + 1, Min(end, Len(array)))

----------------------------------------------------------------------------
(* The metadata entries the inputs are drawn from *)

Str_Ab == <<65, 98>>                \* "Ab"
Str_a_b == <<97, 32, 98>>           \* "a b"
Str_ha == <<104, 97>>               \* "ha", stands for a hidden label
Str_sa == <<115, 97>>               \* "sa", label of the column schema entry
Str_la == <<108, 97>>               \* "la", label of the column lineage entry

TextEntry(label) == [label |-> label, typename |-> "TextMetadataEntry"]

\* plain entries: "Ab", "a b" and one with a hidden label
TextEntries == { TextEntry(Str_Ab), TextEntry(Str_a_b), TextEntry(Str_ha) }

\* with the column schema and the column lineage entry
Entries ==
    TextEntries \cup
    { [label |-> Str_sa, typename |-> "TableSchemaMetadataEntry"],
      [label |-> Str_la, typename |-> "TableColumnLineageMetadataEntry"] }

\* the texts typed into the filter input: "", " ", "a", "AB", "b "
FilterTexts == { <<>>, <<32>>, <<97>>, <<65, 66>>, <<98, 32>> }

\* metadata/MetadataEntry: the configured set of labels never shown
HIDDEN_METADATA_ENTRY_LABELS == { Str_ha }

\* metadata/TableSchema: the structural tests on an entry
isCanonicalColumnSchemaEntry(entry) == entry.typename = "TableSchemaMetadataEntry"
isCanonicalColumnLineageEntry(entry) == entry.typename = "TableColumnLineageMetadataEntry"

----------------------------------------------------------------------------
(* allRows *)

eventRows ==
    IF event # NULL
    THEN [i \in 1..Len(Get(event).metadataEntries) |->
            [icon |-> "materialization",
             timestamp |-> Get(event).timestamp,
             runId |-> NULL,
             entry |-> Get(event).metadataEntries[i]]]
    ELSE <<>>

\* o.metadataEntries.map(...) for one observation
observationEntryRows(o) ==
    [i \in 1..Len(o.metadataEntries) |->
        [icon |-> "observation",
         timestamp |-> o.timestamp,
         runId |-> Some(o.runId),
         entry |-> o.metadataEntries[i]]]

RECURSIVE flatMapObservations(_, _)
flatMapObservations(list, i) ==
    IF i > Len(list) THEN <<>>
    ELSE observationEntryRows(list[i]) \o flatMapObservations(list, i + 1)

observationRows ==
    flatMapObservations(IF observations # NULL THEN Get(observations) ELSE <<>>, 1)

definitionRows ==
    LET entries == IF definitionMetadata # NULL THEN Get(definitionMetadata) ELSE <<>>
    IN  [i \in 1..Len(entries) |->
            [icon |-> "asset",
             timestamp |-> definitionLoadTimestamp,
             runId |-> NULL,
             entry |-> entries[i]]]

\* a uniqBy that keeps the last element of every label instead of the first
RECURSIVE keepLastByLabelFrom(_, _, _)
keepLastByLabelFrom(array, i, result) ==
    IF i > Len(array) THEN result
    ELSE IF \E j \in (i + 1)..Len(array) : array[j].entry.label = array[i].entry.label
         THEN keepLastByLabelFrom(array, i + 1, result)
         ELSE keepLastByLabelFrom(array, i + 1, Append(result, array[i]))

uniqByLabelKeepLast(array) == keepLastByLabelFrom(array, 1, <<>>)

\* lodash uniqBy with iteratee (e) => e.entry.label. Its loop walks the array
\* from the first element to the last and pushes an element on the result when
\* the element's label is not among the labels seen so far; the labels seen on
\* reaching element i are the labels of the elements before i.
uniqByLabel(array) ==
    LET notSeen(i) == \A j \in 1..(i - 1) : array[j].entry.label # array[i].entry.label
        pushed == SelectSeq([i \in 1..Len(array) |-> i], notSeen)
    IN  [k \in 1..Len(pushed) |-> array[pushed[k]]]

\* the spread with the event rows put first
concatenatedRowsEventFirst == eventRows \o observationRows \o definitionRows

concatenatedRows == observationRows \o eventRows \o definitionRows

allRows == uniqByLabel(concatenatedRows)

----------------------------------------------------------------------------
(* filteredRows *)

\* the test with the emptiness check the wrong way round: filter || ...
matchesFilterNegated(row) ==
    \/ filter # <<>>
    \/ includes(toLowerCase(row.entry.label), toLowerCase(filter))

\* the test with the filter text trimmed first: !filter.trim() || ...
matchesFilterTrimmed(row) ==
    \/ \A i \in 1..Len(filter) : filter[i] = 32
    \/ includes(toLowerCase(row.entry.label), toLowerCase(filter))

\* !filter || row.entry.label.toLowerCase().includes(filter.toLowerCase())
matchesFilter(row) ==
    \/ filter = <<>>
    \/ includes(toLowerCase(row.entry.label), toLowerCase(filter))

\* the exclusion test without its column lineage line
notExcludedLineageKept(row) ==
    /\ row.entry.label \notin HIDDEN_METADATA_ENTRY_LABELS
    /\ ~(isCanonicalColumnSchemaEntry(row.entry) /\ hideTableSchema)

notExcluded(row) ==
    /\ row.entry.label \notin HIDDEN_METADATA_ENTRY_LABELS
    /\ ~(isCanonicalColumnSchemaEntry(row.entry) /\ hideTableSchema)
    /\ ~isCanonicalColumnLineageEntry(row.entry)

labelFilteredRows == SelectSeq(allRows, matchesFilter)

filteredRows == SelectSeq(labelFilteredRows, notExcluded)

----------------------------------------------------------------------------
(* What is rendered *)

\* the early return taken on the filtered rows instead of the merged rows
emptyStateYieldedOnFiltered == emptyState # NULL /\ Len(filteredRows) = 0

\* if (emptyState && allRows.length === 0) return emptyState
emptyStateYielded == emptyState # NULL /\ Len(allRows) = 0

filterInputShown == ~emptyStateYielded /\ showFilter /\ view = "table"
plotViewButtonsShown == ~emptyStateYielded /\ showFilter /\ view # "table"
viewButtonsShown == ~emptyStateYielded /\ showFilter

tableShown == ~emptyStateYielded /\ view = "table"
plotsShown == ~emptyStateYielded /\ view = "plots"

\* the "No metadata entries" row
placeholderRowShown == tableShown /\ Len(filteredRows) = 0

\* filteredRows.slice(0, displayedCount).map(...): the data rows of the table
displayedRows == IF tableShown THEN slice(filteredRows, 0, displayedCount) ELSE <<>>

showMoreOffered == tableShown /\ displayedCount < Len(filteredRows)

\* the N of "Show N more"
showMoreCount == Len(filteredRows) - displayedCount

\* "Show less" offered only while more than displayedByDefault rows are there
showLessOfferedWhenLong ==
    /\ tableShown
    /\ ~(displayedCount < Len(filteredRows))
    /\ Len(filteredRows) > displayedByDefault

showLessOffered ==
    /\ tableShown
    /\ ~(displayedCount < Len(filteredRows))
    /\ displayedCount > displayedByDefault

----------------------------------------------------------------------------
(* Inputs *)

RECURSIVE CountEntries(_, _)
CountEntries(list, i) ==
    IF i > Len(list) THEN 0
    ELSE Len(list[i].metadataEntries) + CountEntries(list, i + 1)

EntryLists(entries, n) == [1..n -> entries]

\* event prop with exactly n entries
EventsWith(entries, n, ts) ==
    { Some([timestamp |-> t, metadataEntries |-> es]) :
        t \in ts, es \in EntryLists(entries, n) }
    \cup (IF n = 0 THEN {NULL} ELSE {})

\* lists of exactly k observations with at most budget entries in all;
\* the k-th observation was recorded in run k
RECURSIVE ObservationLists(_, _, _, _)
ObservationLists(entries, k, budget, ts) ==
    IF k = 0 THEN { <<>> }
    ELSE UNION { UNION { { Append(prefix, [timestamp |-> t, runId |-> k,
                                           metadataEntries |-> es]) :
                             t \in ts, es \in EntryLists(entries, n) } :
                         n \in 0..(budget - CountEntries(prefix, 1)) } :
                 prefix \in ObservationLists(entries, k - 1, budget, ts) }

\* observations prop with at most maxObs observations and budget entries in all
ObservationsWithin(entries, maxObs, budget, ts) ==
    {NULL} \cup { Some(list) :
                    list \in UNION { ObservationLists(entries, k, budget, ts) :
                                     k \in 0..maxObs } }

\* definitionMetadata prop with at most budget entries
DefinitionsWithin(entries, budget) ==
    {NULL} \cup { Some(es) : es \in UNION { EntryLists(entries, n) : n \in 0..budget } }

ObservationCount(o) == IF o = NULL THEN 0 ELSE CountEntries(Get(o), 1)

\* the data props: at most maxRows entries over the event, the observations and
\* the definition
DataInit(entries, maxRows, maxObs, ts) ==
    \E ne \in 0..maxRows :
      \E e \in EventsWith(entries, ne, ts) :
        \E o \in ObservationsWithin(entries, maxObs, maxRows - ne, ts) :
          \E d \in DefinitionsWithin(entries, maxRows - ne - ObservationCount(o)) :
            \E dt \in ts :
              /\ event = e
              /\ observations = o
              /\ definitionMetadata = d
              /\ definitionLoadTimestamp = dt

\* useState initial values
StateInit(assetHasDefinedPartitions) ==
    /\ filter = <<>>
    /\ displayedCount = displayedByDefault
    /\ view = "table"
    /\ plotView = IF assetHasDefinedPartitions THEN "partition" ELSE "time"

\* displayedByDefault = 100 when the prop is absent
DefaultCounts == (0..MaxDefault) \cup {DefaultDisplayed}

PropsInit ==
    /\ showFilter \in BOOLEAN
    /\ hideTableSchema \in BOOLEAN
    /\ emptyState \in {NULL, Some("emptyState")}

\* the show more / show less scenario: an event with ScenarioRows entries whose
\* labels are the single code units 19969, 19970, ... (no case, no white space)
ScenarioRows == DefaultDisplayed + ScenarioExtra

ScenarioTableData ==
    /\ event = Some([timestamp |-> 1,
                     metadataEntries |-> [k \in 1..ScenarioRows |-> TextEntry(<<19968 + k>>)]])
    /\ observations = NULL
    /\ definitionMetadata = NULL
    /\ definitionLoadTimestamp = 1

Init ==
    /\ \/ /\ DataInit(TextEntries, MaxRows, 1, {1})
          /\ displayedByDefault \in DefaultCounts
       \/ /\ ScenarioTableData
          /\ displayedByDefault = DefaultDisplayed
    /\ PropsInit
    /\ \E assetHasDefinedPartitions \in BOOLEAN : StateInit(assetHasDefinedPartitions)

----------------------------------------------------------------------------
(* Handlers *)

\* onChange={(e) => setFilter(e.target.value)}
SetFilter(text) ==
    /\ filterInputShown
    /\ filter' = text
    /\ UNCHANGED <<props, displayedCount, view, plotView>>

\* onClick={(id) => setView(id)}
SetView(id) ==
    /\ viewButtonsShown
    /\ view' = id
    /\ UNCHANGED <<props, filter, displayedCount, plotView>>

\* onClick={(id) => setPlotView(id)}
SetPlotView(id) ==
    /\ plotViewButtonsShown
    /\ plotView' = id
    /\ UNCHANGED <<props, filter, displayedCount, view>>

\* a "Show more" that sets the count to the number of rows there are now
ShowMoreToCount ==
    /\ showMoreOffered
    /\ displayedCount' = Len(filteredRows)
    /\ UNCHANGED <<props, filter, view, plotView>>

\* onClick={() => setDisplayedCount(Number.MAX_SAFE_INTEGER)}
ShowMore ==
    /\ showMoreOffered
    /\ displayedCount' = MAX_SAFE_INTEGER
    /\ UNCHANGED <<props, filter, view, plotView>>

\* onClick={() => setDisplayedCount(displayedByDefault)}
ShowLess ==
    /\ showLessOffered
    /\ displayedCount' = displayedByDefault
    /\ UNCHANGED <<props, filter, view, plotView>>

Next ==
    \/ \E text \in FilterTexts : SetFilter(text)
    \/ \E id \in {"table", "plots"} : SetView(id)
    \/ \E id \in {"partition", "time"} : SetPlotView(id)
    \/ ShowMore
    \/ ShowLess

Spec == Init /\ [][Next]_vars

----------------------------------------------------------------------------
(* The merge alone: the component without the filter bar (showFilter unset), *)
(* over more rows, more observations and differing timestamps.               *)

Str_a == <<97>>
Str_b == <<98>>
Str_c == <<99>>
Str_d == <<100>>

MergeTimestamps == {1, 2}

\* event [a, b], one observation [b, c], definition [a, d]
ScenarioMergeData ==
    /\ event = Some([timestamp |-> 1,
                     metadataEntries |-> <<TextEntry(Str_a), TextEntry(Str_b)>>])
    /\ observations = Some(<<[timestamp |-> 2, runId |-> 1,
                              metadataEntries |-> <<TextEntry(Str_b), TextEntry(Str_c)>>]>>)
    /\ definitionMetadata = Some(<<TextEntry(Str_a), TextEntry(Str_d)>>)
    /\ definitionLoadTimestamp = 1

InitMerge ==
    /\ \/ DataInit(TextEntries, MaxMergeRows, MaxObservations, MergeTimestamps)
       \/ ScenarioMergeData
    /\ showFilter = FALSE
    /\ hideTableSchema = FALSE
    /\ emptyState = NULL
    /\ displayedByDefault = MaxDefault
    /\ StateInit(FALSE)

NextMerge ==
    \/ ShowMore
    \/ ShowLess

SpecMerge == InitMerge /\ [][NextMerge]_vars

----------------------------------------------------------------------------
(* The filter alone: the component with the filter bar, left in the table   *)
(* view, over entries of every kind.                                        *)

InitFilter ==
    /\ DataInit(Entries, MaxRows, 1, {1})
    /\ showFilter = TRUE
    /\ hideTableSchema \in BOOLEAN
    /\ emptyState = NULL
    /\ displayedByDefault = DefaultDisplayed
    /\ StateInit(FALSE)

NextFilter == \E text \in FilterTexts : SetFilter(text)

SpecFilter == InitFilter /\ [][NextFilter]_vars

----------------------------------------------------------------------------
(* The inputs, read off the props *)

EventEntries == IF event = NULL THEN <<>> ELSE Get(event).metadataEntries
ObservationList == IF observations = NULL THEN <<>> ELSE Get(observations)
DefinitionEntries == IF definitionMetadata = NULL THEN <<>> ELSE Get(definitionMetadata)

LabelsOf(entries) == { entries[i].label : i \in DOMAIN entries }

EventLabels == LabelsOf(EventEntries)
ObservationLabels ==
    UNION { LabelsOf(ObservationList[k].metadataEntries) : k \in DOMAIN ObservationList }
DefinitionLabels == LabelsOf(DefinitionEntries)
InputLabels == ObservationLabels \cup EventLabels \cup DefinitionLabels

\* row is a row of the source its icon names
FromObservation(row) ==
    \E k \in DOMAIN ObservationList :
        /\ row.timestamp = ObservationList[k].timestamp
        /\ row.runId = Some(ObservationList[k].runId)
        /\ \E j \in DOMAIN ObservationList[k].metadataEntries :
               row.entry = ObservationList[k].metadataEntries[j]

FromEvent(row) ==
    /\ event # NULL
    /\ row.timestamp = Get(event).timestamp
    /\ row.runId = NULL
    /\ \E j \in DOMAIN EventEntries : row.entry = EventEntries[j]

FromDefinition(row) ==
    /\ row.timestamp = definitionLoadTimestamp
    /\ row.runId = NULL
    /\ \E j \in DOMAIN DefinitionEntries : row.entry = DefinitionEntries[j]

\* every input row, tagged: observations first, then the event, then the definition
InputRows == observationRows \o eventRows \o definitionRows

LabelSeq(rows) == [i \in DOMAIN rows |-> rows[i].entry.label]

----------------------------------------------------------------------------
(* Merge *)

\* C1: merge precedence. Every label of any source has exactly one row in
\* allRows, allRows has no other label, and that row is a row of the
\* highest-priority source holding the label: observation > event > definition.
MergePrecedence ==
    LET rows == allRows
    IN  /\ \A i \in DOMAIN rows : rows[i].entry.label \in InputLabels
        /\ \A l \in InputLabels :
             /\ Cardinality({ i \in DOMAIN rows : rows[i].entry.label = l }) = 1
             /\ \A i \in DOMAIN rows :
                  rows[i].entry.label = l =>
                    IF l \in ObservationLabels
                    THEN rows[i].icon = "observation" /\ FromObservation(rows[i])
                    ELSE IF l \in EventLabels
                    THEN rows[i].icon = "materialization" /\ FromEvent(rows[i])
                    ELSE rows[i].icon = "asset" /\ FromDefinition(rows[i])

\* a label held by all three sources, whose surviving row is the observation's
MergePrecedenceWitness ==
    \E l \in ObservationLabels \cap EventLabels \cap DefinitionLabels :
        \E i \in DOMAIN allRows :
            allRows[i].entry.label = l /\ allRows[i].icon = "observation"

\* C2: merge order. allRows is the input rows in the order observations, event,
\* definition, less every row whose label occurs earlier in that order; the
\* scenario event [a, b], observation [b, c], definition [a, d] gives b, c, a, d.
MergeOrder ==
    LET rows == allRows
        c == InputRows
        Kept == { i \in DOMAIN c :
                    \A j \in 1..(i - 1) : c[j].entry.label # c[i].entry.label }
    IN  /\ Len(rows) = Cardinality(Kept)
        /\ \A i \in Kept : rows[Cardinality({ j \in Kept : j <= i })] = c[i]
        /\ ScenarioMergeData => LabelSeq(rows) = <<Str_b, Str_c, Str_a, Str_d>>

\* the scenario's merge
MergeOrderWitness ==
    /\ ScenarioMergeData
    /\ LabelSeq(allRows) = <<Str_b, Str_c, Str_a, Str_d>>

\* C9: latest version shown. The row kept for a label has the greatest
\* timestamp of all input rows with that label.
LatestVersionShown ==
    LET rows == allRows
        c == InputRows
    IN  \A i \in DOMAIN rows : \A j \in DOMAIN c :
            c[j].entry.label = rows[i].entry.label => rows[i].timestamp >= c[j].timestamp

----------------------------------------------------------------------------
(* Filter *)

Upper(ch) == IF ch \in 97..122 THEN ch - 32 ELSE ch

\* text occurs in label when case is ignored
ContainsIgnoringCase(label, text) ==
    \E i \in 0..(Len(label) - Len(text)) :
        \A j \in 1..Len(text) : Upper(label[i + j]) = Upper(text[j])

LabelContainsFilter(row) == ContainsIgnoringCase(row.entry.label, filter)

\* s is t with some elements left out
RECURSIVE IsSubsequenceFrom(_, _, _, _)
IsSubsequenceFrom(s, i, t, j) ==
    IF i > Len(s) THEN TRUE
    ELSE IF j > Len(t) THEN FALSE
    ELSE IF s[i] = t[j] THEN IsSubsequenceFrom(s, i + 1, t, j + 1)
    ELSE IsSubsequenceFrom(s, i, t, j + 1)

IsSubsequence(s, t) == IsSubsequenceFrom(s, 1, t, 1)

Occurs(row, rows) == \E k \in DOMAIN rows : rows[k] = row

\* the exclusion rules as the component is configured
Excluded(row) ==
    \/ row.entry.label \in HIDDEN_METADATA_ENTRY_LABELS
    \/ isCanonicalColumnLineageEntry(row.entry)
    \/ isCanonicalColumnSchemaEntry(row.entry) /\ hideTableSchema

NotExcluded(row) == ~Excluded(row)

\* the filter text is empty or white space only
IsBlank(text) == \A i \in 1..Len(text) : text[i] = 32

\* C3: filter is an order-preserving subset. filteredRows is a subsequence of
\* allRows, the label of every retained row contains the filter text when case
\* is ignored, and the empty filter text retains every row that is not excluded.
FilterIsSubsequence ==
    LET all == allRows
        kept == filteredRows
    IN  /\ IsSubsequence(kept, all)
        /\ \A k \in DOMAIN kept : LabelContainsFilter(kept[k])
        /\ filter = <<>> =>
             \A i \in DOMAIN all : NotExcluded(all[i]) => Occurs(all[i], kept)

\* the filter "AB" keeps the row "Ab" and removes the row "a b"
FilterIsSubsequenceWitness ==
    /\ filter = <<65, 66>>
    /\ \E k \in DOMAIN filteredRows : filteredRows[k].entry.label = Str_Ab
    /\ \E i \in DOMAIN allRows : allRows[i].entry.label = Str_a_b

\* C4: exclusion rules, for every filter text. filteredRows holds no row with a
\* hidden label, no column lineage entry, and no column schema entry when
\* hideTableSchema is set; when it is not set, a column schema entry that
\* matches the filter text and is not hidden is retained.
ExclusionRules ==
    LET all == allRows
        kept == filteredRows
    IN  /\ \A k \in DOMAIN kept :
             /\ kept[k].entry.label \notin HIDDEN_METADATA_ENTRY_LABELS
             /\ ~isCanonicalColumnLineageEntry(kept[k].entry)
             /\ hideTableSchema => ~isCanonicalColumnSchemaEntry(kept[k].entry)
        /\ ~hideTableSchema =>
             \A i \in DOMAIN all :
                 ( /\ isCanonicalColumnSchemaEntry(all[i].entry)
                   /\ LabelContainsFilter(all[i])
                   /\ all[i].entry.label \notin HIDDEN_METADATA_ENTRY_LABELS )
                 => Occurs(all[i], kept)

\* under the filter "a", with hideTableSchema unset, the column schema entry is
\* retained and the column lineage entry, which matches the filter too, is not
ExclusionRulesWitness ==
    /\ filter = <<97>>
    /\ ~hideTableSchema
    /\ \E k \in DOMAIN filteredRows : isCanonicalColumnSchemaEntry(filteredRows[k].entry)
    /\ \E i \in DOMAIN allRows : isCanonicalColumnLineageEntry(allRows[i].entry)

\* C5 as stated: a blank filter text (empty, or white space only) means no
\* filter: the label step removes no row and filteredRows is allRows without
\* the excluded rows.
BlankFilterIsNoFilter ==
    IsBlank(filter) =>
        /\ labelFilteredRows = allRows
        /\ filteredRows = SelectSeq(allRows, NotExcluded)

\* C5 as amended: only the empty filter text means no filter; a filter text of
\* white space is a substring like any other, and the label step keeps exactly
\* the rows whose label contains it.
EmptyFilterIsNoFilter ==
    /\ filter = <<>> =>
         /\ labelFilteredRows = allRows
         /\ filteredRows = SelectSeq(allRows, NotExcluded)
    /\ (filter # <<>> /\ IsBlank(filter)) =>
         labelFilteredRows = SelectSeq(allRows, LabelContainsFilter)

\* the filter " " keeps the row "a b" and removes the row "Ab"
EmptyFilterIsNoFilterWitness ==
    /\ filter = <<32>>
    /\ LabelSeq(allRows) = <<Str_Ab, Str_a_b>>
    /\ LabelSeq(labelFilteredRows) = <<Str_a_b>>

----------------------------------------------------------------------------
(* Pagination *)

Max(a, b) == IF a > b THEN a ELSE b

\* the N announced by "Show N more"; nothing is announced without the button
AnnouncedRemainder == IF showMoreOffered THEN showMoreCount ELSE 0

\* C6: pagination clamp. In the table view the rows displayed are the first
\* min(displayedCount, |filteredRows|) rows of filteredRows, the remainder
\* announced is max(0, |filteredRows| - displayedCount), and with the show-all
\* sentinel every filtered row is displayed and the remainder is 0.
PaginationClamp ==
    tableShown =>
        LET rows == filteredRows
            n == Min(displayedCount, Len(rows))
        IN  /\ displayedRows = [i \in 1..n |-> rows[i]]
            /\ AnnouncedRemainder = Max(0, Len(rows) - displayedCount)
            /\ AnnouncedRemainder >= 0
            /\ displayedCount = MAX_SAFE_INTEGER =>
                 /\ displayedRows = rows
                 /\ AnnouncedRemainder = 0

\* one of two filtered rows is displayed and one more is announced
PaginationClampWitness ==
    /\ tableShown
    /\ displayedCount = 1
    /\ Len(filteredRows) = 2
    /\ Len(displayedRows) = 1
    /\ AnnouncedRemainder = 1

\* the scenario: ScenarioRows (150) filtered rows, displayedByDefault = 100
ScenarioCase ==
    /\ tableShown
    /\ displayedByDefault = DefaultDisplayed
    /\ Len(filteredRows) = ScenarioRows

ScenarioCollapsed ==
    /\ Len(displayedRows) = DefaultDisplayed
    /\ showMoreOffered
    /\ showMoreCount = ScenarioExtra

ScenarioExpanded ==
    /\ Len(displayedRows) = ScenarioRows
    /\ AnnouncedRemainder = 0

\* C7: show more / show less is a two-state machine. displayedCount starts at
\* displayedByDefault and is always displayedByDefault or the sentinel; a step
\* changes it only by show-more (to the sentinel) or show-less (back to
\* displayedByDefault); filter edits and view switches leave it alone. In the
\* scenario 100 rows are shown and 50 announced, then 150 and 0, then 100 again.
TwoStateMachine ==
    /\ displayedCount = displayedByDefault
    /\ [](displayedCount \in {displayedByDefault, MAX_SAFE_INTEGER})
    /\ [](ScenarioCase =>
            /\ displayedCount = displayedByDefault => ScenarioCollapsed
            /\ displayedCount = MAX_SAFE_INTEGER => ScenarioExpanded)
    /\ [][ /\ displayedCount' # displayedCount =>
                \/ showMoreOffered /\ displayedCount' = MAX_SAFE_INTEGER
                \/ showLessOffered /\ displayedCount' = displayedByDefault
           /\ (filter' # filter \/ view' # view \/ plotView' # plotView) =>
                displayedCount' = displayedCount ]_vars

\* the scenario after show-more: all 150 rows
TwoStateMachineWitness ==
    /\ ScenarioCase
    /\ displayedCount = MAX_SAFE_INTEGER
    /\ ScenarioExpanded

----------------------------------------------------------------------------
(* Empty state *)

\* C8: empty-state policy. With no merged row and an emptyState supplied, the
\* emptyState is yielded and no table (nor anything else); with merged rows but
\* no filtered row, the table view has the "No metadata entries" row and no
\* data row, and the emptyState is not yielded.
EmptyStatePolicy ==
    /\ (Len(InputRows) = 0 /\ emptyState # NULL) =>
         /\ emptyStateYielded
         /\ ~tableShown /\ ~plotsShown /\ ~viewButtonsShown
         /\ ~placeholderRowShown
         /\ displayedRows = <<>>
    /\ (Len(InputRows) > 0 /\ Len(filteredRows) = 0 /\ view = "table") =>
         /\ ~emptyStateYielded
         /\ tableShown
         /\ placeholderRowShown
         /\ displayedRows = <<>>

\* rows were merged, the filter text matches none, an emptyState was supplied:
\* the placeholder row is shown
EmptyStatePolicyWitness ==
    /\ emptyState # NULL
    /\ filter # <<>>
    /\ \E i \in DOMAIN allRows : NotExcluded(allRows[i])
    /\ Len(filteredRows) = 0
    /\ placeholderRowShown

----------------------------------------------------------------------------
(* Buttons *)

\* C10: show-more / show-less affordances. In the table view at most one button
\* is offered; "Show N more" exactly when displayedCount < |filteredRows|, with
\* N >= 1 rows hidden; "Show less" exactly when displayedCount >= |filteredRows|
\* and displayedCount > displayedByDefault; with neither, displayedCount is
\* displayedByDefault and every filtered row is displayed; after show-more,
\* "Show less" stays offered until it is pressed.
Affordances ==
    /\ [](tableShown =>
            LET rows == filteredRows
            IN  /\ ~(showMoreOffered /\ showLessOffered)
                /\ showMoreOffered <=> displayedCount < Len(rows)
                /\ showMoreOffered =>
                     /\ showMoreCount >= 1
                     /\ Len(displayedRows) + showMoreCount = Len(rows)
                /\ showLessOffered <=>
                     (displayedCount >= Len(rows) /\ displayedCount > displayedByDefault)
                /\ (~showMoreOffered /\ ~showLessOffered) =>
                     /\ displayedCount = displayedByDefault
                     /\ displayedRows = rows
                /\ displayedCount = MAX_SAFE_INTEGER => showLessOffered)
    /\ [][ (displayedCount = MAX_SAFE_INTEGER /\ displayedCount' # MAX_SAFE_INTEGER) =>
             (showLessOffered /\ displayedCount' = displayedByDefault) ]_vars

\* after show-more a filter edit left fewer rows than displayedByDefault, and
\* "Show less" is still offered
AffordancesWitness ==
    /\ tableShown
    /\ displayedCount = MAX_SAFE_INTEGER
    /\ filter # <<>>
    /\ Len(filteredRows) < displayedByDefault
    /\ showLessOffered

====
